---- MODULE Spec2Model ----
(***************************************************************************)
(* Model of finance_bot (src/main.py): one evaluation pass over the two    *)
(* watchlists (portfolio_tickers.csv, other_tickers.csv), the per-ticker   *)
(* decision of check_stock, the rendering of the aggregated events and the *)
(* single Slack dispatch.                                                  *)
(*                                                                         *)
(* Environment (set in Init, never changed): the SLACK_WEBHOOK_URL         *)
(* variable, the two CSV files and the answers of the quote source, one    *)
(* answer per ticker for the duration of the pass.                         *)
(*                                                                         *)
(* Numbers.  Prices and thresholds are integers; change_pct is kept as the *)
(* exact fraction num/den, so the comparisons of check_stock are exact.    *)
(* The rounding of IEEE doubles is not modelled.  A division by a zero     *)
(* previous close gives inf, -inf or nan as numpy.float64 does.            *)
(*                                                                         *)
(* Rendering.  A message is the sequence of its lines; a line is a record  *)
(* of the values the f-string interpolates (number formatting and the URL  *)
(* template are not unfolded).  Per-ticker console lines are not modelled. *)
(***************************************************************************)
EXTENDS Integers, Sequences, FiniteSets, TLC

\* ------------------------------------------------------------------ bounds

\* Rows per CSV file.
MaxRows == 2
\* Rows of the 5-day daily history the quote source may return.
MaxDays == 2

\* ------------------------------------------------------------- input sets

Tickers == {"7203.T", "6361.T"}
CompanyNames == {"name"}

\* Threshold values of other_tickers.csv (percent).
Thresholds == {-3, 0, 3, 5, 7}
\* Threshold pairs <<up, down>> used in the full pass.
PassThresholds == {<<5, 3>>, <<0, 0>>}

\* Prices the quote source reports.
PrevCloses == {0, 1000}
CurrentPrices == {930, 1000, 1031, 1050}
DailyCloses == {1000, 1010}

None == [kind |-> "None"]

RECURSIVE SeqsUpTo(_, _)
SeqsUpTo(S, n) ==
    IF n = 0 THEN {<<>>}
    ELSE LET shorter == SeqsUpTo(S, n - 1)
         IN  shorter \cup {Append(s, x) : s \in {t \in shorter : Len(t) = n - 1}, x \in S}

\* ------------------------------------------------------ the quote source

\* stock.info.get('previousClose'): raises, or the key is absent, or a value.
InfoAnswers ==
    {[st |-> "raise", v |-> 0], [st |-> "absent", v |-> 0]}
        \cup {[st |-> "value", v |-> p] : p \in PrevCloses}

\* stock.history(period='1d', interval='1m'): raises, or an empty frame, or
\* a frame whose last Close is `last`.
IntradayAnswers ==
    {[st |-> "raise", last |-> 0], [st |-> "empty", last |-> 0]}
        \cup {[st |-> "rows", last |-> p] : p \in CurrentPrices}

\* stock.history(period='5d'): raises, or the Close column, oldest first.
DailyAnswers ==
    {[st |-> "raise", closes |-> <<>>]}
        \cup {[st |-> "rows", closes |-> s] : s \in SeqsUpTo(DailyCloses, MaxDays)}

AllQuotes == [info : InfoAnswers, intraday : IntradayAnswers, daily : DailyAnswers]

Quote(i, d, h) == [info |-> i, intraday |-> d, daily |-> h]

\* The answers used in the full pass: a transport error, no intraday data,
\* an unchanged price, a fall of 7% against the fallback close and a rise
\* of 5%.
QuoteRaise == Quote([st |-> "raise", v |-> 0], [st |-> "empty", last |-> 0],
                    [st |-> "rows", closes |-> <<>>])
QuoteEmpty == Quote([st |-> "value", v |-> 1000], [st |-> "empty", last |-> 0],
                    [st |-> "rows", closes |-> <<>>])
QuoteFlat == Quote([st |-> "value", v |-> 1000], [st |-> "rows", last |-> 1000],
                   [st |-> "rows", closes |-> <<>>])
QuoteFall == Quote([st |-> "absent", v |-> 0], [st |-> "rows", last |-> 930],
                   [st |-> "rows", closes |-> <<1000, 1010>>])
QuoteRise == Quote([st |-> "value", v |-> 1000], [st |-> "rows", last |-> 1050],
                   [st |-> "raise", closes |-> <<>>])
PassQuotes == {QuoteRaise, QuoteEmpty, QuoteFlat, QuoteFall, QuoteRise}

\* ------------------------------------------------------------ CSV loaders

PortfolioRows == [ticker : Tickers \cup {""}, company_name : CompanyNames]
OtherRows ==
    [ticker : Tickers \cup {""}, company_name : CompanyNames,
     up_threshold : Thresholds, down_threshold : Thresholds]

RECURSIVE PortfolioTargetsOf(_)
PortfolioTargetsOf(rows) ==
    IF rows = <<>> THEN <<>>
    ELSE LET row == rows[Len(rows)]
             before == PortfolioTargetsOf(SubSeq(rows, 1, Len(rows) - 1))
         IN  IF row.ticker = "" THEN before
             ELSE Append(before, [ticker |-> row.ticker,
                                  company_name |-> row.company_name,
                                  is_portfolio |-> TRUE])

load_portfolio_targets(file) ==
    IF ~file.exists THEN <<>> ELSE PortfolioTargetsOf(file.rows)

RECURSIVE OtherTargetsOf(_)
OtherTargetsOf(rows) ==
    IF rows = <<>> THEN <<>>
    ELSE LET row == rows[Len(rows)]
             before == OtherTargetsOf(SubSeq(rows, 1, Len(rows) - 1))
         IN  IF row.ticker = "" THEN before
             ELSE Append(before, [ticker |-> row.ticker,
                                  up |-> row.up_threshold,
                                  down |-> row.down_threshold,
                                  company_name |-> row.company_name,
                                  is_portfolio |-> FALSE])

load_other_targets(file) ==
    IF ~file.exists THEN <<>> ELSE OtherTargetsOf(file.rows)

\* ------------------------------------------------------------ check_stock

\* ((current_price - prev_close) / prev_close) * 100 as an exact fraction;
\* numpy.float64 division by zero gives inf, -inf or nan, never an error.
ChangePct(current_price, prev_close) ==
    IF prev_close # 0
    THEN [kind |-> "fin", num |-> (current_price - prev_close) * 100, den |-> prev_close]
    ELSE [kind |-> IF current_price > 0 THEN "inf"
                   ELSE IF current_price < 0 THEN "ninf" ELSE "nan",
          num |-> 0, den |-> 0]

\* change_pct >= x, change_pct <= x and change_pct > x for a number x.
Ge(c, x) ==
    CASE c.kind = "fin" -> IF c.den > 0 THEN c.num >= x * c.den ELSE c.num <= x * c.den
      [] c.kind = "inf" -> TRUE
      [] OTHER -> FALSE

Le(c, x) ==
    CASE c.kind = "fin" -> IF c.den > 0 THEN c.num <= x * c.den ELSE c.num >= x * c.den
      [] c.kind = "ninf" -> TRUE
      [] OTHER -> FALSE

Gt(c, x) ==
    CASE c.kind = "fin" -> IF c.den > 0 THEN c.num > x * c.den ELSE c.num < x * c.den
      [] c.kind = "inf" -> TRUE
      [] OTHER -> FALSE

\* FetchQuote taking the most recent daily close (iloc[-1]) as the fallback.
FetchQuote_last_close(q) ==
    IF q.info.st = "raise"
    THEN [st |-> "error", calls |-> <<"info">>, prev_close |-> 0, current_price |-> 0]
    ELSE IF q.intraday.st = "raise"
    THEN [st |-> "error", calls |-> <<"info", "history_1d">>,
          prev_close |-> 0, current_price |-> 0]
    ELSE IF q.intraday.st = "empty"
    THEN [st |-> "no_data", calls |-> <<"info", "history_1d">>,
          prev_close |-> 0, current_price |-> 0]
    ELSE IF q.info.st = "value"
    THEN [st |-> "ok", calls |-> <<"info", "history_1d">>,
          prev_close |-> q.info.v, current_price |-> q.intraday.last]
    ELSE IF q.daily.st = "raise"
    THEN [st |-> "error", calls |-> <<"info", "history_1d", "history_5d">>,
          prev_close |-> 0, current_price |-> 0]
    ELSE IF Len(q.daily.closes) >= 2
    THEN [st |-> "ok", calls |-> <<"info", "history_1d", "history_5d">>,
          prev_close |-> q.daily.closes[Len(q.daily.closes)],
          current_price |-> q.intraday.last]
    ELSE [st |-> "no_prev_close", calls |-> <<"info", "history_1d", "history_5d">>,
          prev_close |-> 0, current_price |-> 0]

\* Lines 112-131: the previous close and the current price, or the reason
\* the ticker is skipped, with the calls made to the quote source.
FetchQuote(q) ==
    IF q.info.st = "raise"
    THEN [st |-> "error", calls |-> <<"info">>, prev_close |-> 0, current_price |-> 0]
    ELSE IF q.intraday.st = "raise"
    THEN [st |-> "error", calls |-> <<"info", "history_1d">>,
          prev_close |-> 0, current_price |-> 0]
    ELSE IF q.intraday.st = "empty"
    THEN [st |-> "no_data", calls |-> <<"info", "history_1d">>,
          prev_close |-> 0, current_price |-> 0]
    ELSE IF q.info.st = "value"
    THEN [st |-> "ok", calls |-> <<"info", "history_1d">>,
          prev_close |-> q.info.v, current_price |-> q.intraday.last]
    ELSE IF q.daily.st = "raise"
    THEN [st |-> "error", calls |-> <<"info", "history_1d", "history_5d">>,
          prev_close |-> 0, current_price |-> 0]
    ELSE IF Len(q.daily.closes) >= 2
    THEN [st |-> "ok", calls |-> <<"info", "history_1d", "history_5d">>,
          prev_close |-> q.daily.closes[Len(q.daily.closes) - 1],
          current_price |-> q.intraday.last]
    ELSE [st |-> "no_prev_close", calls |-> <<"info", "history_1d", "history_5d">>,
          prev_close |-> 0, current_price |-> 0]

\* PortfolioEvent reporting a portfolio entry only when its price moved.
PortfolioEvent_only_moves(target, change_pct, prev_close, current_price) ==
    IF current_price = prev_close THEN None
    ELSE [ticker |-> target.ticker, company_name |-> target.company_name,
          change_pct |-> change_pct, prev_close |-> prev_close,
          current_price |-> current_price, is_portfolio |-> TRUE]

\* Lines 136-148: a portfolio entry is always reported.
PortfolioEvent(target, change_pct, prev_close, current_price) ==
    [ticker |-> target.ticker, company_name |-> target.company_name,
     change_pct |-> change_pct, prev_close |-> prev_close,
     current_price |-> current_price, is_portfolio |-> TRUE]

\* ThresholdCheck with a strict comparison on the upper bound.
ThresholdCheck_strict(target, change_pct, prev_close, current_price) ==
    IF Gt(change_pct, target.up)
    THEN [ticker |-> target.ticker, company_name |-> target.company_name,
          change_pct |-> change_pct, prev_close |-> prev_close,
          current_price |-> current_price, status |-> "up",
          threshold |-> target.up, is_portfolio |-> FALSE]
    ELSE IF Le(change_pct, -target.down)
    THEN [ticker |-> target.ticker, company_name |-> target.company_name,
          change_pct |-> change_pct, prev_close |-> prev_close,
          current_price |-> current_price, status |-> "down",
          threshold |-> target.down, is_portfolio |-> FALSE]
    ELSE None

\* ThresholdCheck with the fall tested before the rise.
ThresholdCheck_down_first(target, change_pct, prev_close, current_price) ==
    IF Le(change_pct, -target.down)
    THEN [ticker |-> target.ticker, company_name |-> target.company_name,
          change_pct |-> change_pct, prev_close |-> prev_close,
          current_price |-> current_price, status |-> "down",
          threshold |-> target.down, is_portfolio |-> FALSE]
    ELSE IF Ge(change_pct, target.up)
    THEN [ticker |-> target.ticker, company_name |-> target.company_name,
          change_pct |-> change_pct, prev_close |-> prev_close,
          current_price |-> current_price, status |-> "up",
          threshold |-> target.up, is_portfolio |-> FALSE]
    ELSE None

\* Lines 153-184: the threshold check of an entry of the other watchlist.
ThresholdCheck(target, change_pct, prev_close, current_price) ==
    IF Ge(change_pct, target.up)
    THEN [ticker |-> target.ticker, company_name |-> target.company_name,
          change_pct |-> change_pct, prev_close |-> prev_close,
          current_price |-> current_price, status |-> "up",
          threshold |-> target.up, is_portfolio |-> FALSE]
    ELSE IF Le(change_pct, -target.down)
    THEN [ticker |-> target.ticker, company_name |-> target.company_name,
          change_pct |-> change_pct, prev_close |-> prev_close,
          current_price |-> current_price, status |-> "down",
          threshold |-> target.down, is_portfolio |-> FALSE]
    ELSE None

\* check_stock whose exception handler returns a record of the error
\* instead of None.
check_stock_error_event(target, q) ==
    LET f == FetchQuote(q)
        change_pct == ChangePct(f.current_price, f.prev_close)
    IN  [calls |-> f.calls,
         result |->
            IF f.st = "error"
            THEN [ticker |-> target.ticker, company_name |-> target.company_name,
                  error |-> TRUE, is_portfolio |-> target.is_portfolio]
            ELSE IF f.st # "ok" THEN None
            ELSE IF target.is_portfolio
            THEN PortfolioEvent(target, change_pct, f.prev_close, f.current_price)
            ELSE ThresholdCheck(target, change_pct, f.prev_close, f.current_price)]

\* check_stock(target) against the answers q of the quote source for its
\* ticker: the returned value and the calls made.
check_stock(target, q) ==
    LET f == FetchQuote(q)
        change_pct == ChangePct(f.current_price, f.prev_close)
    IN  [calls |-> f.calls,
         result |->
            IF f.st # "ok" THEN None
            ELSE IF target.is_portfolio
            THEN PortfolioEvent(target, change_pct, f.prev_close, f.current_price)
            ELSE ThresholdCheck(target, change_pct, f.prev_close, f.current_price)]

\* `if notification_data:` a dict with keys is true, None is false.
Truthy(notification_data) == notification_data # None

\* ------------------------------------------- format_notification_message

\* Emoji with `>= 0` for `> 0`.
Emoji_nonnegative(change_pct) ==
    IF Ge(change_pct, 0) THEN "chart_with_upwards_trend"
    ELSE "chart_with_downwards_trend"

Emoji(change_pct) ==
    IF Gt(change_pct, 0) THEN "chart_with_upwards_trend"
    ELSE "chart_with_downwards_trend"

PortfolioLines(notif) ==
    << [line |-> "line1", emoji |-> Emoji(notif.change_pct), ticker |-> notif.ticker,
        company_name |-> notif.company_name, change_pct |-> notif.change_pct,
        with_threshold |-> FALSE, threshold |-> 0],
       [line |-> "line2", prev_close |-> notif.prev_close,
        current_price |-> notif.current_price] >>

OtherLines(notif) ==
    << [line |-> "line1", emoji |-> Emoji(notif.change_pct), ticker |-> notif.ticker,
        company_name |-> notif.company_name, change_pct |-> notif.change_pct,
        with_threshold |-> TRUE, threshold |-> notif.threshold],
       [line |-> "line2", prev_close |-> notif.prev_close,
        current_price |-> notif.current_price] >>

RECURSIVE PortfolioSection(_)
PortfolioSection(notifs) ==
    IF notifs = <<>> THEN <<>>
    ELSE PortfolioSection(SubSeq(notifs, 1, Len(notifs) - 1))
            \o PortfolioLines(notifs[Len(notifs)])

RECURSIVE OtherSection(_)
OtherSection(notifs) ==
    IF notifs = <<>> THEN <<>>
    ELSE OtherSection(SubSeq(notifs, 1, Len(notifs) - 1))
            \o OtherLines(notifs[Len(notifs)])

format_notification_message(pn, on) ==
    IF pn = <<>> /\ on = <<>> THEN None
    ELSE [kind |-> "message",
          lines |->
            (IF pn # <<>>
             THEN <<[line |-> "header", section |-> "portfolio"]>> \o PortfolioSection(pn)
             ELSE <<>>)
            \o
            (IF on # <<>>
             THEN (IF pn # <<>> THEN <<[line |-> "separator"]>> ELSE <<>>)
                    \o <<[line |-> "header", section |-> "other"]>> \o OtherSection(on)
             ELSE <<>>)]


VARIABLES
    env_url,                  \* os.environ.get("SLACK_WEBHOOK_URL")
    portfolio_csv,            \* portfolio_tickers.csv
    other_csv,                \* other_tickers.csv
    market,                   \* the quote source: ticker -> answers
    pc,                       \* position in main
    webhook_url,
    portfolio_targets,
    other_targets,
    idx,                      \* entries of the current for-loop already taken
    portfolio_notifications,
    other_notifications,
    quote_calls,              \* calls made to the quote source, in order
    posts,                    \* calls of requests.post, in order
    stdout,                   \* the summary lines main prints
    exit_status               \* "running", "success" or "failure"

vars == <<env_url, portfolio_csv, other_csv, market, pc, webhook_url,
          portfolio_targets, other_targets, idx, portfolio_notifications,
          other_notifications, quote_calls, posts, stdout, exit_status>>

\* ------------------------------------------------------------------- main

EnvUrls ==
    {[set |-> FALSE, value |-> ""], [set |-> TRUE, value |-> ""],
     [set |-> TRUE, value |-> "https://hooks.slack.com/services/T/B/X"]}

File(rows) == [exists |-> TRUE, rows |-> rows]
MissingFile == [exists |-> FALSE, rows |-> <<>>]

\* A ticker is listed at most once in a file (rows without a ticker aside).
UniqueTickers(rows) ==
    \A j, k \in DOMAIN rows : rows[j].ticker # "" /\ rows[j].ticker = rows[k].ticker => j = k

Files(RowSet) ==
    {MissingFile} \cup {File(r) : r \in {x \in SeqsUpTo(RowSet, MaxRows) : UniqueTickers(x)}}

PassOtherRows ==
    {r \in OtherRows : <<r.up_threshold, r.down_threshold>> \in PassThresholds}

\* Before main runs: any environment, any two files of at most MaxRows
\* rows (a ticker may be in both files), any answer of the quote source for
\* each ticker.
Init ==
    /\ env_url \in EnvUrls
    /\ portfolio_csv \in Files(PortfolioRows)
    /\ other_csv \in Files(PassOtherRows)
    /\ market \in [Tickers -> PassQuotes]
    /\ pc = "start"
    /\ webhook_url = ""
    /\ portfolio_targets = <<>>
    /\ other_targets = <<>>
    /\ idx = 0
    /\ portfolio_notifications = <<>>
    /\ other_notifications = <<>>
    /\ quote_calls = <<>>
    /\ posts = <<>>
    /\ stdout = <<>>
    /\ exit_status = "running"

EvalTicker == "7203.T"

\* One watchlist entry in one of the two files, every answer of the quote
\* source for its ticker and every pair of thresholds.
InitEval ==
    /\ env_url = [set |-> TRUE, value |-> "https://hooks.slack.com/services/T/B/X"]
    /\ \/ /\ portfolio_csv \in {File(<<r>>) : r \in {x \in PortfolioRows : x.ticker = EvalTicker}}
          /\ other_csv = File(<<>>)
       \/ /\ portfolio_csv = File(<<>>)
          /\ other_csv \in {File(<<r>>) : r \in {x \in OtherRows : x.ticker = EvalTicker}}
    /\ market \in {m \in [Tickers -> AllQuotes \cup {QuoteRaise}] :
                      \A t \in Tickers \ {EvalTicker} : m[t] = QuoteRaise}
    /\ pc = "start"
    /\ webhook_url = ""
    /\ portfolio_targets = <<>>
    /\ other_targets = <<>>
    /\ idx = 0
    /\ portfolio_notifications = <<>>
    /\ other_notifications = <<>>
    /\ quote_calls = <<>>
    /\ posts = <<>>
    /\ stdout = <<>>
    /\ exit_status = "running"

Environment == <<env_url, portfolio_csv, other_csv, market>>

\* get_webhook_url testing `url is None` only.
get_webhook_url_unset_only ==
    IF ~env_url.set
    THEN [exits |-> TRUE, url |-> ""]
    ELSE [exits |-> FALSE, url |-> env_url.value]

\* get_webhook_url(): `if not url` is true of an unset and of an empty
\* variable, and sys.exit(1) ends the process.
get_webhook_url ==
    IF ~env_url.set \/ env_url.value = ""
    THEN [exits |-> TRUE, url |-> ""]
    ELSE [exits |-> FALSE, url |-> env_url.value]

\* Lines 247-248.
Start ==
    /\ pc = "start"
    /\ stdout' = Append(stdout, [line |-> "start"])
    /\ IF get_webhook_url.exits
       THEN /\ pc' = "exited"
            /\ exit_status' = "failure"
            /\ webhook_url' = webhook_url
       ELSE /\ pc' = "load"
            /\ exit_status' = exit_status
            /\ webhook_url' = get_webhook_url.url
    /\ UNCHANGED <<Environment, portfolio_targets, other_targets, idx,
                   portfolio_notifications, other_notifications, quote_calls, posts>>

\* Lines 251-259.
LoadTargets ==
    /\ pc = "load"
    /\ portfolio_targets' = load_portfolio_targets(portfolio_csv)
    /\ other_targets' = load_other_targets(other_csv)
    /\ stdout' = stdout \o <<[line |-> "portfolio_count", n |-> Len(portfolio_targets')],
                             [line |-> "other_count", n |-> Len(other_targets')]>>
    /\ portfolio_notifications' = <<>>
    /\ other_notifications' = <<>>
    /\ idx' = 0
    /\ pc' = "portfolio_loop"
    /\ UNCHANGED <<Environment, webhook_url, quote_calls, posts, exit_status>>

CallsOf(target, calls) ==
    [k \in 1..Len(calls) |-> [ticker |-> target.ticker, call |-> calls[k]]]

\* AppendIfTruthy inserting at the front of the list.
AppendIfTruthy_front(notifications, notification_data) ==
    IF Truthy(notification_data) THEN <<notification_data>> \o notifications
    ELSE notifications

\* The list after `if notification_data: list.append(notification_data)`.
AppendIfTruthy(notifications, notification_data) ==
    IF Truthy(notification_data) THEN Append(notifications, notification_data)
    ELSE notifications

\* Lines 262-265, one iteration.
CheckPortfolio ==
    /\ pc = "portfolio_loop"
    /\ idx < Len(portfolio_targets)
    /\ LET target == portfolio_targets[idx + 1]
           r == check_stock(target, market[target.ticker])
       IN  /\ quote_calls' = quote_calls \o CallsOf(target, r.calls)
           /\ portfolio_notifications' = AppendIfTruthy(portfolio_notifications, r.result)
    /\ idx' = idx + 1
    /\ UNCHANGED <<Environment, pc, webhook_url, portfolio_targets, other_targets,
                   other_notifications, posts, stdout, exit_status>>

\* The first for-loop is exhausted.
EndPortfolio ==
    /\ pc = "portfolio_loop"
    /\ idx = Len(portfolio_targets)
    /\ pc' = "other_loop"
    /\ idx' = 0
    /\ UNCHANGED <<Environment, webhook_url, portfolio_targets, other_targets,
                   portfolio_notifications, other_notifications, quote_calls, posts,
                   stdout, exit_status>>

\* Lines 268-271, one iteration.
CheckOther ==
    /\ pc = "other_loop"
    /\ idx < Len(other_targets)
    /\ LET target == other_targets[idx + 1]
           r == check_stock(target, market[target.ticker])
       IN  /\ quote_calls' = quote_calls \o CallsOf(target, r.calls)
           /\ other_notifications' = AppendIfTruthy(other_notifications, r.result)
    /\ idx' = idx + 1
    /\ UNCHANGED <<Environment, pc, webhook_url, portfolio_targets, other_targets,
                   portfolio_notifications, posts, stdout, exit_status>>

\* The second for-loop is exhausted.
EndOther ==
    /\ pc = "other_loop"
    /\ idx = Len(other_targets)
    /\ pc' = "notify"
    /\ idx' = 0
    /\ UNCHANGED <<Environment, webhook_url, portfolio_targets, other_targets,
                   portfolio_notifications, other_notifications, quote_calls, posts,
                   stdout, exit_status>>

\* send_slack posting a second time when the first POST raised.
send_slack_retry(text, url, outcome) ==
    IF outcome = "raise"
    THEN posts \o <<[text |-> text, url |-> url, outcome |-> "raise"],
                    [text |-> text, url |-> url, outcome |-> "ok"]>>
    ELSE Append(posts, [text |-> text, url |-> url, outcome |-> outcome])

\* send_slack(text, url): one requests.post; an exception is caught and
\* printed.  The posts after the call.
send_slack(text, url, outcome) ==
    Append(posts, [text |-> text, url |-> url, outcome |-> outcome])

\* The condition of line 274 looking at the portfolio list only.
HasNotifications_portfolio_only == portfolio_notifications # <<>>

\* The condition of line 274.
HasNotifications == portfolio_notifications # <<>> \/ other_notifications # <<>>

\* Lines 274-278 and 282.
SendNotification ==
    /\ pc = "notify"
    /\ HasNotifications
    /\ \E outcome \in {"ok", "raise"} :
          posts' = send_slack(format_notification_message(portfolio_notifications,
                                                          other_notifications),
                              webhook_url, outcome)
    /\ stdout' = stdout \o
          <<[line |-> "sent",
             n |-> Len(portfolio_notifications) + Len(other_notifications)],
            [line |-> "done"]>>
    /\ pc' = "done"
    /\ exit_status' = "success"
    /\ UNCHANGED <<Environment, webhook_url, portfolio_targets, other_targets, idx,
                   portfolio_notifications, other_notifications, quote_calls>>

\* Lines 279-282.
NothingToSend ==
    /\ pc = "notify"
    /\ ~HasNotifications
    /\ stdout' = stdout \o <<[line |-> "nothing"], [line |-> "done"]>>
    /\ pc' = "done"
    /\ exit_status' = "success"
    /\ UNCHANGED <<Environment, webhook_url, portfolio_targets, other_targets, idx,
                   portfolio_notifications, other_notifications, quote_calls, posts>>

Next ==
    \/ Start
    \/ LoadTargets
    \/ CheckPortfolio
    \/ EndPortfolio
    \/ CheckOther
    \/ EndOther
    \/ SendNotification
    \/ NothingToSend

\* The full pass over two bounded watchlists.
Spec == Init /\ [][Next]_vars

\* The pass over a single entry, for the decision of check_stock.
SpecEval == InitEval /\ [][Next]_vars

\* ============================================================== properties

\* Both for-loops are finished.
Passed == pc \in {"notify", "done"}

\* The webhook variable is unset or empty.
NoWebhook == ~env_url.set \/ env_url.value = ""

\* What the quote source says, read off its answers q.
HasIntraday(q) == q.intraday.st = "rows"
PrimaryPresent(q) == q.info.st = "value"
FallbackPresent(q) == q.daily.st = "rows" /\ Len(q.daily.closes) >= 2
SecondMostRecent(q) == q.daily.closes[Len(q.daily.closes) - 1]
Resolved(q) == PrimaryPresent(q) \/ (q.info.st = "absent" /\ FallbackPresent(q))
ResolvedClose(q) == IF PrimaryPresent(q) THEN q.info.v ELSE SecondMostRecent(q)
ValidQuote(q) ==
    /\ q.info.st # "raise"
    /\ HasIntraday(q)
    /\ Resolved(q)
    /\ ResolvedClose(q) > 0

\* A call to the quote source for this ticker raises.
Fails(q) ==
    \/ q.info.st = "raise"
    \/ q.intraday.st = "raise"
    \/ (q.info.st = "absent" /\ HasIntraday(q) /\ q.daily.st = "raise")

\* change_pct >= x and change_pct <= -x for current price c and previous
\* close p >= 0, in integers (a zero p gives +inf for the positive c).
AtLeast(c, p, x) == IF p > 0 THEN (c - p) * 100 >= x * p ELSE c > 0
AtMostMinus(c, p, x) == IF p > 0 THEN (c - p) * 100 <= (-x) * p ELSE c < 0

\* The single entry of SpecEval and the answers for its ticker.
EvalQuote == market[EvalTicker]
EvalCurrent == EvalQuote.intraday.last
EvalPortfolio == Passed /\ Len(portfolio_targets) = 1 /\ other_targets = <<>>
EvalOther == Passed /\ Len(other_targets) = 1 /\ portfolio_targets = <<>>

\* C1: an entry of the other watchlist with an available quote (intraday
\* sample, previous close resolved and positive) gives an event if and only
\* if change_pct >= up_threshold or change_pct <= -down_threshold; equality
\* counts on both bounds.
C1_ThresholdIff ==
    (EvalOther /\ ValidQuote(EvalQuote)) =>
        LET t == other_targets[1]
            p == ResolvedClose(EvalQuote)
        IN  /\ Len(other_notifications) <= 1
            /\ portfolio_notifications = <<>>
            /\ (other_notifications # <<>>) <=>
                  (AtLeast(EvalCurrent, p, t.up) \/ AtMostMinus(EvalCurrent, p, t.down))

\* C1 witness: a fall of exactly down_threshold (930 against 1000, 7%) that
\* does not reach up_threshold, and the event it gives.
C1_Witness ==
    /\ EvalOther /\ pc = "done" /\ ValidQuote(EvalQuote)
    /\ other_targets[1].down = 7 /\ other_targets[1].up = 5
    /\ EvalCurrent = 930 /\ ResolvedClose(EvalQuote) = 1000
    /\ Len(other_notifications) = 1

\* C2: a portfolio entry with a valid quote always gives an event, whatever
\* the sign or size of the change, and main keeps it in the portfolio list.
C2_PortfolioAlways ==
    (EvalPortfolio /\ ValidQuote(EvalQuote)) =>
        /\ Len(portfolio_notifications) = 1
        /\ other_notifications = <<>>
        /\ portfolio_notifications[1].ticker = portfolio_targets[1].ticker
        /\ portfolio_notifications[1].current_price = EvalCurrent
        /\ portfolio_notifications[1].prev_close = ResolvedClose(EvalQuote)

\* C2 witness: an unchanged price (change of exactly zero) is reported.
C2_Witness ==
    /\ EvalPortfolio /\ pc = "done" /\ ValidQuote(EvalQuote)
    /\ EvalCurrent = ResolvedClose(EvalQuote)
    /\ Len(portfolio_notifications) = 1

\* C8: the missing-data policy, for both categories.  Without an intraday
\* sample there is no event whatever the previous close is; with a sample
\* and the primary previous close, that close is used and the 5-day history
\* is not asked for; without the primary close, the second most recent daily
\* close is used if the history has two rows, and there is no event
\* otherwise.  No skip ends the pass or changes the exit status.
C8_MissingData ==
    LET q == EvalQuote
        events == portfolio_notifications \o other_notifications
        asked5d == \E k \in DOMAIN quote_calls : quote_calls[k].call = "history_5d"
    IN  /\ (Passed /\ ~HasIntraday(q)) => events = <<>>
        /\ (Passed /\ q.info.st # "raise" /\ HasIntraday(q) /\ PrimaryPresent(q)) =>
              /\ ~asked5d
              /\ \A k \in DOMAIN events : events[k].prev_close = q.info.v
              /\ EvalPortfolio => Len(events) = 1
        /\ (Passed /\ q.info.st = "absent" /\ HasIntraday(q) /\ FallbackPresent(q)) =>
              /\ asked5d
              /\ \A k \in DOMAIN events : events[k].prev_close = SecondMostRecent(q)
              /\ EvalPortfolio => Len(events) = 1
        /\ (Passed /\ q.info.st = "absent" /\ HasIntraday(q) /\ ~FallbackPresent(q)) =>
              events = <<>>
        /\ pc # "exited"
        /\ pc # "done" => ENABLED Next
        /\ pc = "done" => exit_status = "success"

\* C8 witness: the primary close is absent and the history holds two
\* different closes; the event carries the older one.
C8_Witness ==
    /\ EvalPortfolio /\ pc = "done"
    /\ EvalQuote.info.st = "absent" /\ HasIntraday(EvalQuote)
    /\ FallbackPresent(EvalQuote)
    /\ SecondMostRecent(EvalQuote) # EvalQuote.daily.closes[Len(EvalQuote.daily.closes)]
    /\ Len(portfolio_notifications) = 1
    /\ portfolio_notifications[1].prev_close = SecondMostRecent(EvalQuote)

\* C9: an event of the other watchlist has exactly one direction: Up, with
\* threshold_crossed = up_threshold, whenever change_pct >= up_threshold
\* (also when change_pct <= -down_threshold holds too), and Down, with
\* threshold_crossed = down_threshold, only when change_pct < up_threshold
\* and change_pct <= -down_threshold.
C9_Direction ==
    (EvalOther /\ other_notifications # <<>>) =>
        LET t == other_targets[1]
            e == other_notifications[1]
            p == ResolvedClose(EvalQuote)
            up == AtLeast(EvalCurrent, p, t.up)
            down == AtMostMinus(EvalCurrent, p, t.down)
        IN  /\ e.status \in {"up", "down"}
            /\ up => (e.status = "up" /\ e.threshold = t.up)
            /\ e.status = "down" => (~up /\ down /\ e.threshold = t.down)

\* C9 witness: both conditions hold at once and the event is Up.
C9_Witness ==
    /\ EvalOther /\ pc = "done" /\ ValidQuote(EvalQuote)
    /\ other_notifications # <<>>
    /\ AtLeast(EvalCurrent, ResolvedClose(EvalQuote), other_targets[1].up)
    /\ AtMostMinus(EvalCurrent, ResolvedClose(EvalQuote), other_targets[1].down)
    /\ other_notifications[1].status = "up"

\* The glyph of the first event line of the message that was posted.
PostedEmoji == posts[1].text.lines[2].emoji
GlyphMatches(e) ==
    (e.status = "up") <=> (PostedEmoji = "chart_with_upwards_trend")
EvalOtherPosted ==
    /\ EvalOther /\ pc = "done" /\ other_notifications # <<>>
    /\ other_targets[1].up >= 0 /\ other_targets[1].down >= 0

\* C10 as stated: with non-negative thresholds, the glyph rendered for an
\* event of the other watchlist matches its direction.
C10_GlyphMatchesDirection ==
    EvalOtherPosted => GlyphMatches(other_notifications[1])

\* C10 amended: with non-negative thresholds the glyph matches the direction
\* except when up_threshold = 0 and the price is unchanged: the change of
\* exactly zero gives an Up event, and it is rendered with the down-glyph.
C10_GlyphMatchesUnlessFlat ==
    EvalOtherPosted =>
        LET e == other_notifications[1]
            flatAtZero == EvalCurrent = ResolvedClose(EvalQuote) /\ other_targets[1].up = 0
        IN  /\ GlyphMatches(e) <=> ~flatAtZero
            /\ flatAtZero => e.status = "up"

\* C10 witness: a rise over a positive up_threshold, rendered with the
\* up-glyph.
C10_Witness ==
    /\ EvalOtherPosted
    /\ other_targets[1].up = 5
    /\ other_notifications[1].status = "up"
    /\ PostedEmoji = "chart_with_upwards_trend"

\* ------------------------------------------------------- the full pass

\* Entries check_stock was entered for: stock.info is its first call.
NumInfoCalls == Cardinality({k \in DOMAIN quote_calls : quote_calls[k].call = "info"})
AllEvents == portfolio_notifications \o other_notifications

\* Entries of each watchlist that check_stock has been called for.
PortfolioDone ==
    IF pc = "portfolio_loop" THEN idx
    ELSE IF pc \in {"other_loop", "notify", "done"} THEN Len(portfolio_targets) ELSE 0
OtherDone ==
    IF pc = "other_loop" THEN idx
    ELSE IF Passed THEN Len(other_targets) ELSE 0
EntriesDone(t) ==
    Cardinality({k \in 1..PortfolioDone : portfolio_targets[k].ticker = t})
        + Cardinality({k \in 1..OtherDone : other_targets[k].ticker = t})
NumCalls(t, c) ==
    Cardinality({k \in DOMAIN quote_calls :
                    quote_calls[k].ticker = t /\ quote_calls[k].call = c})
QuoteApi == {"info", "history_1d", "history_5d"}

\* C3: send_slack is called exactly once if an event was aggregated and
\* never otherwise; it is called only after every entry of both watchlists
\* has been evaluated, with the result of format_notification_message, which
\* is none only for two empty lists.
C3_DispatchOnce ==
    /\ Len(posts) <= 1
    /\ pc = "done" => (Len(posts) = 1 <=> AllEvents # <<>>)
    /\ posts # <<>> =>
          /\ pc = "done"
          /\ NumInfoCalls = Len(portfolio_targets) + Len(other_targets)
          /\ posts[1].text # None
          /\ posts[1].text =
                format_notification_message(portfolio_notifications, other_notifications)
          /\ posts[1].url = env_url.value
    /\ (format_notification_message(portfolio_notifications, other_notifications) = None)
          <=> AllEvents = <<>>

\* C3 witness: one dispatch for an event of the other watchlist alone, after
\* a portfolio entry was skipped.
C3_Witness ==
    /\ pc = "done" /\ Len(posts) = 1
    /\ portfolio_targets # <<>> /\ portfolio_notifications = <<>>
    /\ other_notifications # <<>>

\* C4: without a webhook URL (unset or empty) the process exits with a
\* failure before a watchlist is loaded, a quote is asked for or a message
\* is posted; otherwise it runs to the end and exits successfully.
C4_FatalConfig ==
    /\ NoWebhook =>
          /\ pc \in {"start", "exited"}
          /\ pc = "start" => ENABLED Start
          /\ pc = "exited" => (exit_status = "failure" /\ stdout = <<[line |-> "start"]>>)
          /\ portfolio_targets = <<>> /\ other_targets = <<>>
          /\ quote_calls = <<>> /\ posts = <<>>
    /\ ~NoWebhook =>
          /\ pc # "exited" /\ exit_status # "failure"
          /\ pc # "done" => ENABLED Next
          /\ pc = "done" => exit_status = "success"

\* C4 witness: the variable is set but empty, the files hold rows, and the
\* process has exited.
C4_Witness ==
    /\ pc = "exited" /\ env_url.set /\ env_url.value = ""
    /\ portfolio_csv.rows # <<>> /\ other_csv.rows # <<>>

\* The for-loop of main over a watchlist.
RECURSIVE RunLoop(_)
RunLoop(targets) ==
    IF targets = <<>> THEN <<>>
    ELSE LET target == targets[Len(targets)]
         IN  AppendIfTruthy(RunLoop(SubSeq(targets, 1, Len(targets) - 1)),
                            check_stock(target, market[target.ticker]).result)

NotFailing(target) == ~Fails(market[target.ticker])

\* C5: a ticker whose quote fetch raises gives no event, every other entry
\* of both watchlists is still evaluated, and the two lists are those of a
\* pass over the watchlists without the failing tickers.
C5_Isolation ==
    /\ \A k \in DOMAIN AllEvents : ~Fails(market[AllEvents[k].ticker])
    /\ ~NoWebhook => (pc # "exited" /\ (pc # "done" => ENABLED Next))
    /\ \A t \in Tickers : NumCalls(t, "info") = EntriesDone(t)
    /\ Passed =>
          /\ portfolio_notifications = RunLoop(SelectSeq(portfolio_targets, NotFailing))
          /\ other_notifications = RunLoop(SelectSeq(other_targets, NotFailing))
          /\ NumInfoCalls = Len(portfolio_targets) + Len(other_targets)

\* C5 witness: the first portfolio entry fails, the second one is reported.
C5_Witness ==
    /\ pc = "done" /\ Len(portfolio_targets) = 2
    /\ Fails(market[portfolio_targets[1].ticker])
    /\ Len(portfolio_notifications) = 1
    /\ portfolio_notifications[1].ticker = portfolio_targets[2].ticker

Produces(target) == check_stock(target, market[target.ticker]).result # None
EventsOf(targets) ==
    LET kept == SelectSeq(targets, Produces)
    IN  [k \in 1..Len(kept) |-> check_stock(kept[k], market[kept[k].ticker]).result]
IsEventLine(l) == l.line = "line1"
IsHeader(l) == l.line = "header"

\* C6: each list holds, in watchlist order, the events of the entries of its
\* own watchlist that produced one, at most one per entry; the message lists
\* them in that order, the portfolio section first.
C6_Order ==
    Passed =>
        /\ portfolio_notifications = EventsOf(portfolio_targets)
        /\ other_notifications = EventsOf(other_targets)
        /\ \A k \in DOMAIN portfolio_notifications : portfolio_notifications[k].is_portfolio
        /\ \A k \in DOMAIN other_notifications : ~other_notifications[k].is_portfolio
        /\ Len(portfolio_notifications) <= Len(portfolio_targets)
        /\ Len(other_notifications) <= Len(other_targets)
        /\ posts # <<>> =>
              LET shown == SelectSeq(posts[1].text.lines, IsEventLine)
                  heads == SelectSeq(posts[1].text.lines, IsHeader)
                  np == Len(portfolio_notifications)
              IN  /\ Len(shown) = Len(AllEvents)
                  /\ \A k \in DOMAIN shown :
                        /\ shown[k].ticker = AllEvents[k].ticker
                        /\ shown[k].change_pct = AllEvents[k].change_pct
                        /\ shown[k].with_threshold <=> k > np
                  /\ heads = (IF np > 0 THEN <<[line |-> "header", section |-> "portfolio"]>>
                              ELSE <<>>)
                             \o (IF other_notifications # <<>>
                                 THEN <<[line |-> "header", section |-> "other"]>>
                                 ELSE <<>>)

\* C6 witness: two portfolio events of different tickers and an event of the
\* other watchlist, posted.
C6_Witness ==
    /\ pc = "done" /\ posts # <<>>
    /\ Len(portfolio_notifications) = 2
    /\ portfolio_notifications[1].ticker # portfolio_notifications[2].ticker
    /\ other_notifications # <<>>

\* A failed delivery is caught, not retried, followed by no further quote
\* fetch, and main still prints the summary and exits normally; at most one
\* dispatch per invocation.
C7_NoRetry ==
    /\ Len(posts) <= 1
    /\ posts # <<>> => pc = "done"
    /\ pc = "done" => ~ENABLED Next
    /\ (pc = "done" /\ posts # <<>>) =>
          /\ exit_status = "success"
          /\ Len(stdout) >= 2
          /\ stdout[Len(stdout)] = [line |-> "done"]
          /\ stdout[Len(stdout) - 1] = [line |-> "sent", n |-> Len(AllEvents)]

\* C7 as stated: a failed delivery changes nothing and is not retried, and
\* each quote fetch is attempted at most once per ticker.
C7_OncePerTicker ==
    /\ C7_NoRetry
    /\ \A t \in Tickers, c \in QuoteApi : NumCalls(t, c) <= 1

\* C7 amended: a failed delivery changes nothing and is not retried, and
\* each quote fetch is attempted at most once per watchlist entry (a ticker
\* listed in both watchlists is fetched once for each).
C7_OncePerEntry ==
    /\ C7_NoRetry
    /\ \A t \in Tickers :
          /\ NumCalls(t, "info") = EntriesDone(t)
          /\ \A c \in QuoteApi : NumCalls(t, c) <= EntriesDone(t)

\* C7 witness: the POST raised, the summary is printed, and a ticker of both
\* watchlists was fetched twice.
C7_Witness ==
    /\ pc = "done" /\ Len(posts) = 1 /\ posts[1].outcome = "raise"
    /\ stdout[Len(stdout)] = [line |-> "done"]
    /\ \E t \in Tickers : NumCalls(t, "info") = 2

====
